---- MODULE Spec2Model ----
(***************************************************************************)
(* Device status ingestion and storage of the Sengled local server:        *)
(* DeviceStorage (device_storage.py) as a state machine.                   *)
(*                                                                         *)
(* Text.  A Python str is a sequence of tokens.  A token is either one     *)
(* separator character ("/", "," or the blank " ") or a maximal run of     *)
(* other characters, so that str.split, str.strip, str.upper and len are   *)
(* computed on the text and not assumed.  The empty str is << >>.          *)
(*                                                                         *)
(* JSON values.  A decoded JSON value is [t, text]: t is "str", "num",     *)
(* "null" or "list" and text is the value's text (for a number its         *)
(* decimal digits).                                                        *)
(***************************************************************************)
EXTENDS Integers, Sequences, FiniteSets, TLC

----------------------------------------------------------------------------
(* Bounds of the model and program constants.                              *)

\* DeviceStorage.MAX_DEVICES is 200; the model runs the same code with a
\* ceiling small enough to be reached.
MAX_DEVICES == 2

\* DeviceStorage.MAX_DEVICE_SIZE_BYTES is 1024 * 1024; the model runs the same
\* comparison with a limit that the attribute sets of the model straddle.
MAX_DEVICE_SIZE_BYTES == 160

\* How many times the clock advances.
MaxTicks == 1

\* threshold for a "comprehensive" status message
COMPREHENSIVE_THRESHOLD == 5

\* one day in milliseconds: 24 * 3600 seconds, times 1000
DAY_MS == 86400000

----------------------------------------------------------------------------
(* Text operations.                                                        *)

RECURSIVE StrLen(_)
\* len(s): the number of characters of s
StrLen(s) == IF s = << >> THEN 0 ELSE Len(Head(s)) + StrLen(Tail(s))

RECURSIVE Split(_, _)
\* s.split(sep): the segments of s between the separators, empty ones kept
Split(s, sep) ==
    IF s = << >> THEN << << >> >>
    ELSE IF Head(s) = sep THEN << << >> >> \o Split(Tail(s), sep)
    ELSE LET r == Split(Tail(s), sep)
         IN  << << Head(s) >> \o Head(r) >> \o Tail(r)

RECURSIVE LStrip(_)
LStrip(s) == IF s # << >> /\ Head(s) = " " THEN LStrip(Tail(s)) ELSE s

RECURSIVE RStrip(_)
RStrip(s) ==
    IF s # << >> /\ s[Len(s)] = " " THEN RStrip(SubSeq(s, 1, Len(s) - 1)) ELSE s

\* s.strip(): s without its leading and trailing blanks
Strip(s) == RStrip(LStrip(s))

\* str.upper on one run of characters, for the letters the model uses
UpperTok(tok) ==
    CASE tok = "aa" -> "AA"
      [] tok = "aA" -> "AA"
      [] tok = "bb" -> "BB"
      [] tok = "b0:ce:18:c3:3a:a2" -> "B0:CE:18:C3:3A:A2"
      [] OTHER -> tok

\* mutant of Upper: the text is kept as it is spelled
Upper_identity(s) == s

\* s.upper()
Upper(s) == [i \in DOMAIN s |-> UpperTok(s[i])]

----------------------------------------------------------------------------
(* JSON values and their serialisation.                                    *)

JStr(s) == [t |-> "str", text |-> s]
JNum(tok) == [t |-> "num", text |-> << tok >>]
JNull == [t |-> "null", text |-> << >>]
JList == [t |-> "list", text |-> << "[1]" >>]

\* Python truth of a decoded JSON value
Truthy(v) ==
    CASE v.t = "str" -> StrLen(v.text) # 0
      [] v.t = "num" -> v.text # << "0" >>
      [] v.t = "null" -> FALSE
      [] OTHER -> TRUE

\* len(json.dumps(v)) for a value: a str is quoted
JsonLen(v) ==
    CASE v.t = "str" -> StrLen(v.text) + 2
      [] v.t = "null" -> 4
      [] OTHER -> StrLen(v.text)

\* the key json.dumps writes for a dict key: always a JSON string
JsonKey(k) == JStr(IF k.t = "null" THEN << "null" >> ELSE k.text)

RECURSIVE SumEntries(_, _)
SumEntries(attrs, keys) ==
    IF keys = {} THEN 0
    ELSE LET k == CHOOSE x \in keys : TRUE
         IN  JsonLen(JsonKey(k)) + 2 + JsonLen(attrs[k])
               + SumEntries(attrs, keys \ {k})

\* len(json.dumps(attrs).encode('utf-8')) with the default separators
\* ', ' and ': ' (the texts of the model are ASCII)
JsonSize(attrs) ==
    LET n == Cardinality(DOMAIN attrs)
    IN  2 + SumEntries(attrs, DOMAIN attrs) + (IF n = 0 THEN 0 ELSE 2 * (n - 1))

\* mutant of Merge: the mapping is replaced, not merged
Merge_replace(old, new) == new

\* dict.update: old overridden by new
Merge(old, new) ==
    [k \in DOMAIN old \cup DOMAIN new |->
        IF k \in DOMAIN new THEN new[k] ELSE old[k]]

----------------------------------------------------------------------------
(* parse_status_message.  A payload is [kind, items]: kind "invalid" is a  *)
(* text json.loads rejects, "other" one that decodes to something that is  *)
(* not a list, "list" one that decodes to the sequence items.  An item is  *)
(* [isDict, f]: f gives the fields of a JSON object.                       *)

\* the result None
None == [ok |-> FALSE, mac |-> JNull, attributes |-> << >>, timestamp |-> 0]

\* item.get(name): None for an absent field
Get(item, name) == IF name \in DOMAIN item.f THEN item.f[name] ELSE JNull

RECURSIVE ParseItems(_, _, _)
\* the loop over status_list: [raised, mac, attributes]
ParseItems(items, mac, parsed_data) ==
    IF items = << >>
    THEN [raised |-> FALSE, mac |-> mac, attributes |-> parsed_data]
    ELSE LET item == Head(items)
         IN  IF ~item.isDict THEN ParseItems(Tail(items), mac, parsed_data)
             ELSE LET mac1 == IF mac = JNull THEN Get(item, "dn") ELSE mac
                      type_key == Get(item, "type")
                      value == Get(item, "value")
                  IN  IF Truthy(type_key) /\ value # JNull
                      THEN IF type_key.t = "list"
                           \* an unhashable key: TypeError
                           THEN [raised |-> TRUE, mac |-> mac1,
                                 attributes |-> parsed_data]
                           ELSE ParseItems(Tail(items), mac1,
                                    Merge(parsed_data, type_key :> value))
                      ELSE ParseItems(Tail(items), mac1, parsed_data)

\* mutant of parse_status_message: an element that is not an object makes
\* the whole payload fail
parse_status_message_strict(payload, t) ==
    IF payload.kind # "list" \/ payload.items = << >> THEN None
    ELSE IF \E i \in DOMAIN payload.items : ~payload.items[i].isDict THEN None
    ELSE LET r == ParseItems(payload.items, JNull, << >>)
         IN  IF r.raised THEN None
             ELSE [ok |-> TRUE, mac |-> r.mac, attributes |-> r.attributes,
                   timestamp |-> t]

parse_status_message(payload, t) ==
    IF payload.kind # "list" \/ payload.items = << >> THEN None
    ELSE LET r == ParseItems(payload.items, JNull, << >>)
         IN  IF r.raised THEN None
             ELSE [ok |-> TRUE, mac |-> r.mac, attributes |-> r.attributes,
                   timestamp |-> t]

----------------------------------------------------------------------------
(* update_device on the in-memory mapping.  A device record is             *)
(* [mac, first_seen, last_seen, capabilities, attributes]; status_data is  *)
(* [has_attributes, attributes].                                           *)

SUPPORT == JStr(<< "supportAttributes" >>)

\* the default of self._devices.get(mac, {...})
NewDevice(m, t) ==
    [mac |-> m, first_seen |-> t, last_seen |-> t,
     capabilities |-> << >>, attributes |-> << >>]

\* mutant of GetDevice: the default record is taken also for a known identifier
GetDevice_default(devs, m, t) == NewDevice(m, t)

\* self._devices.get(mac, {...}): the stored record, or the default
GetDevice(devs, m, t) == IF m \in DOMAIN devs THEN devs[m] ELSE NewDevice(m, t)

\* mutant of TooLarge: the comparison is >= instead of >
TooLarge_ge(attrs) == JsonSize(attrs) >= MAX_DEVICE_SIZE_BYTES

\* mutant of AtCapacity: the comparison is > instead of >=
AtCapacity_above(devs) == Cardinality(DOMAIN devs) > MAX_DEVICES

\* len(self._devices) >= self.MAX_DEVICES
AtCapacity(devs) == Cardinality(DOMAIN devs) >= MAX_DEVICES

\* len(device_json.encode('utf-8')) > self.MAX_DEVICE_SIZE_BYTES
TooLarge(attrs) == JsonSize(attrs) > MAX_DEVICE_SIZE_BYTES

\* mutant of Capabilities: the segments are not stripped
Capabilities_unstripped(caps_str) == Split(caps_str, ",")

\* [cap.strip() for cap in caps_str.split(',')]
Capabilities(caps_str) ==
    LET segs == Split(caps_str, ",")
    IN  [i \in DOMAIN segs |-> Strip(segs[i])]

\* self._devices[mac] = device
\* mutant of Store: the record is not put in the mapping
Store_skipped(devs, m, device) == devs

Store(devs, m, device) ==
    [k \in DOMAIN devs \cup {m} |-> IF k = m THEN device ELSE devs[k]]

\* [devices, outcome]: the mapping when update_device ends and how it ends:
\* "no_mac", "capacity", "too_large" (return False), "raise" (an exception
\* leaves it) or "stored" (it goes on to _save_devices and returns True).
\* For a known identifier, device is the stored record itself, not a copy:
\* what the code assigns to device before it ends is assigned in the mapping.
update_device(devs, mac, status_data, t) ==
    IF mac = << >> THEN [devices |-> devs, outcome |-> "no_mac"]
    ELSE
    LET m == Upper(mac)
        is_new_device == m \notin DOMAIN devs
    IN  IF is_new_device /\ AtCapacity(devs)
        THEN [devices |-> devs, outcome |-> "capacity"]
        ELSE
        LET Live(d) == IF is_new_device THEN devs ELSE [devs EXCEPT ![m] = d]
            device0 == GetDevice(devs, m, t)
            device1 == [device0 EXCEPT !.last_seen = t]
            updated_attributes ==
                Merge(device1.attributes, status_data.attributes)
        IN  IF status_data.has_attributes /\ TooLarge(updated_attributes)
            THEN [devices |-> Live(device1), outcome |-> "too_large"]
            ELSE
            LET device2 == IF status_data.has_attributes
                           THEN [device1 EXCEPT !.attributes = updated_attributes]
                           ELSE device1
                has_caps == SUPPORT \in DOMAIN device2.attributes
            IN  IF has_caps /\ device2.attributes[SUPPORT].t # "str"
                \* caps_str.split: AttributeError
                THEN [devices |-> Live(device2), outcome |-> "raise"]
                ELSE
                LET device3 ==
                        IF has_caps
                        THEN [device2 EXCEPT !.capabilities =
                                 Capabilities(device2.attributes[SUPPORT].text)]
                        ELSE device2
                IN  [devices |-> Store(devs, m, device3), outcome |-> "stored"]

----------------------------------------------------------------------------
(* process_mqtt_message: [devices, outcome].  The outcomes of              *)
(* update_device, and "ignored_topic", "non_status", "parse_failed",       *)
(* "short"; "raise" is caught here and the message returns False.          *)

\* len(topic_parts) < 3 or topic_parts[0] != 'wifielement'
NonDeviceTopic(topic_parts) ==
    Len(topic_parts) < 3 \/ topic_parts[1] # << "wifielement" >>

\* mutant of NonStatus: the check of the subtopic is missing
NonStatus_never(message_type) == FALSE

\* message_type != 'status'
NonStatus(message_type) == message_type # << "status" >>

\* mutant of ShortStatus: the comparison is <= instead of <
ShortStatus_le(parsed) ==
    Cardinality(DOMAIN parsed.attributes) <= COMPREHENSIVE_THRESHOLD

\* len(parsed['attributes']) < 5
ShortStatus(parsed) ==
    Cardinality(DOMAIN parsed.attributes) < COMPREHENSIVE_THRESHOLD

process_mqtt_message(devs, topic, payload, t) ==
    LET topic_parts == Split(topic, "/")
    IN  IF NonDeviceTopic(topic_parts)
        THEN [devices |-> devs, outcome |-> "ignored_topic"]
        ELSE
        LET mac == topic_parts[2]
            message_type == topic_parts[3]
        IN  IF NonStatus(message_type)
            THEN [devices |-> devs, outcome |-> "non_status"]
            ELSE
            LET parsed == parse_status_message(payload, t)
            IN  IF ~parsed.ok
                THEN [devices |-> devs, outcome |-> "parse_failed"]
                ELSE IF ShortStatus(parsed)
                THEN [devices |-> devs, outcome |-> "short"]
                ELSE update_device(devs, mac,
                         [has_attributes |-> TRUE,
                          attributes |-> parsed.attributes], t)

----------------------------------------------------------------------------
(* cleanup_old_devices on the in-memory mapping.                           *)

\* mutant of CutoffTime: the age is subtracted in seconds from a time in
\* milliseconds
CutoffTime_seconds(t, max_age_days) == t - max_age_days * 86400

\* int((time.time() - (max_age_days * 24 * 3600)) * 1000)
CutoffTime(t, max_age_days) == t - max_age_days * DAY_MS

old_devices(devs, t, max_age_days) ==
    {m \in DOMAIN devs : devs[m].last_seen < CutoffTime(t, max_age_days)}

cleanup_old_devices(devs, t, max_age_days) ==
    [m \in DOMAIN devs \ old_devices(devs, t, max_age_days) |-> devs[m]]

----------------------------------------------------------------------------
(* get_device and get_all_devices on the in-memory mapping.  Both hand out *)
(* the record objects of the store, not copies of them: get_device the     *)
(* record itself, get_all_devices a new dict over the same records.        *)

\* the result None of get_device
NoDevice ==
    [mac |-> << >>, first_seen |-> 0, last_seen |-> 0,
     capabilities |-> << >>, attributes |-> << >>]

\* self._devices.get(mac.upper())
get_device(devs, mac) ==
    IF Upper(mac) \in DOMAIN devs THEN devs[Upper(mac)] ELSE NoDevice

\* dict(self._devices): the keys and, under each key, the record of the store
get_all_devices(devs) == [m \in DOMAIN devs |-> devs[m]]

\* mutant of get_storage_stats: last_updated is the least last_seen, min
\* instead of max
get_storage_stats_min(devs) ==
    [total_devices |-> Cardinality(DOMAIN devs),
     max_devices |-> MAX_DEVICES,
     last_updated |->
        IF DOMAIN devs = {} THEN 0
        ELSE CHOOSE t \in {devs[m].last_seen : m \in DOMAIN devs} :
                 \A m \in DOMAIN devs : devs[m].last_seen >= t]

\* get_storage_stats: the fields computed from the in-memory mapping (the
\* file size fields come from the file system)
get_storage_stats(devs) ==
    [total_devices |-> Cardinality(DOMAIN devs),
     max_devices |-> MAX_DEVICES,
     last_updated |->
        \* max([dev.get('last_seen', 0) ...] or [0])
        IF DOMAIN devs = {} THEN 0
        ELSE CHOOSE t \in {devs[m].last_seen : m \in DOMAIN devs} :
                 \A m \in DOMAIN devs : devs[m].last_seen <= t]

----------------------------------------------------------------------------
(* The snapshot file.  A file is [kind, data]: "absent", "partial" (a      *)
(* text json.load rejects: an empty or half-written file) or "complete"    *)
(* with the mapping json.load reads from it.                               *)

Absent == [kind |-> "absent", data |-> << >>]
Partial == [kind |-> "partial", data |-> << >>]

\* what json.load reads back from the text json.dump writes for an
\* attribute mapping: every key is written as a JSON string (of two keys
\* written as the same string one survives)
DumpAttributes(attrs) ==
    [k \in {JsonKey(x) : x \in DOMAIN attrs} |->
        attrs[CHOOSE x \in DOMAIN attrs : JsonKey(x) = k]]

\* json.dump(self._devices, f, indent=2), as the file it produces
JsonDump(devs) ==
    [kind |-> "complete",
     data |-> [m \in DOMAIN devs |->
                 [devs[m] EXCEPT !.attributes = DumpAttributes(@)]]]

\* _load_devices: the mapping a new DeviceStorage starts with
load_devices(file) == IF file.kind = "complete" THEN file.data ELSE << >>

----------------------------------------------------------------------------
(* The inputs of the model.                                                *)

\* identifiers: three devices, and the first one in lower case
M1 == << "B0:CE:18:C3:3A:A2" >>
M1lower == << "b0:ce:18:c3:3a:a2" >>
M2 == << "B0:CE:18:C3:3A:B7" >>
M3 == << "B0:CE:18:C3:3A:C9" >>

K(name) == JStr(<< name >>)

\* the five attributes of a full status message (136 bytes as JSON)
FullAttributes ==
    (K("brightness") :> K("25")) @@ (K("switch") :> K("1"))
      @@ (K("colorTemperature") :> K("200"))
      @@ (SUPPORT :> JStr(<< "brightness", ",", "switch", ",",
                             "colorTemperature" >>))
      @@ (K("online") :> K("1"))

\* with FullAttributes: 160 bytes
FirmwareAttributes == K("firmware") :> K("V0.0.130")
\* with FullAttributes: 161 bytes, one more
BuildAttributes == K("firmware") :> K("V0.0.130b")
\* with FullAttributes: 183 bytes; alone: 47 bytes
LongAttributes == K("firmware") :> K("V0.0.130-20210521-release-build")

Status(attrs) == [has_attributes |-> TRUE, attributes |-> attrs]
NoAttributes == [has_attributes |-> FALSE, attributes |-> << >>]

Call(mac, status_data) == [mac |-> mac, status_data |-> status_data]

\* update_device(mac, status_data) as called on the store
Calls ==
    {Call(<< >>, Status(FullAttributes)),
     Call(M1, Status(FullAttributes)),
     Call(M1, NoAttributes),
     Call(M1lower, Status(FirmwareAttributes)),
     Call(M2, Status(FullAttributes)),
     Call(M2, Status(LongAttributes)),
     Call(M3, Status(FullAttributes))}

\* max_age_days of a sweep
Days == {0, 1}

\* payloads
Item(dn, type, value) ==
    [isDict |-> TRUE,
     f |-> ("dn" :> JStr(dn)) @@ ("type" :> type) @@ ("value" :> value)]
NotAnObject == [isDict |-> FALSE, f |-> << >>]

FullItems(dn) ==
    << Item(dn, K("brightness"), K("25")),
       Item(dn, K("switch"), K("1")),
       Item(dn, K("colorTemperature"), K("200")),
       Item(dn, SUPPORT, FullAttributes[SUPPORT]),
       Item(dn, K("online"), K("1")) >>

ListPayload(items) == [kind |-> "list", items |-> items]
InvalidPayload == [kind |-> "invalid", items |-> << >>]
OtherPayload == [kind |-> "other", items |-> << >>]

FullPayload == ListPayload(FullItems(M1))
\* four attributes: one short of the threshold
FourPayload == ListPayload(SubSeq(FullItems(M1), 1, 4))
\* the five attributes among records that are skipped or overwritten
MixedPayload ==
    ListPayload(<< NotAnObject,
                   [isDict |-> TRUE,
                    f |-> ("type" :> K("brightness")) @@ ("value" :> K("30"))] >>
                \o FullItems(M1)
                \o << Item(M1, K("power"), JNull),
                      [isDict |-> TRUE, f |-> ("dn" :> JStr(M1)) @@ ("value" :> K("9"))],
                      Item(M1, K(""), K("1")) >>)
\* five attributes, supportAttributes a number
NumberPayload ==
    ListPayload(SubSeq(FullItems(M1), 1, 3)
                \o << Item(M1, SUPPORT, JNum("7")), Item(M1, K("online"), K("1")) >>)
\* a type that is a list
ListTypePayload == ListPayload(FullItems(M1) \o << Item(M1, JList, K("1")) >>)

\* five attributes without supportAttributes, every value a text
PlainPayload(dn) ==
    ListPayload(<< Item(dn, K("brightness"), K("30")),
                   Item(dn, K("switch"), K("1")),
                   Item(dn, K("colorTemperature"), K("200")),
                   Item(dn, K("online"), K("1")),
                   Item(dn, K("deviceRssi"), K("-40")) >>)

Topic(mac, sub) == << "wifielement", "/" >> \o mac \o << "/", sub >>

Message(topic, payload) == [topic |-> topic, payload |-> payload]

\* process_mqtt_message(topic, payload) as called by the listener
Messages ==
    {Message(Topic(M1, "status"), FullPayload),
     Message(Topic(M1lower, "status"), MixedPayload),
     Message(Topic(M2, "status"), FullPayload),
     Message(Topic(M1, "status") \o << "/", "extra" >>, FullPayload),
     Message(Topic(<< >>, "status"), FullPayload),
     Message(Topic(M1, "status"), FourPayload),
     Message(Topic(M1, "status"), NumberPayload),
     Message(Topic(M1, "status"), ListTypePayload),
     Message(Topic(M1, "status"), InvalidPayload),
     Message(Topic(M1, "status"), ListPayload(<< >>)),
     Message(Topic(M1, "consumption"), FullPayload),
     Message(Topic(M1, "consumptionTime"), FullPayload),
     Message(<< "wifielement", "/" >> \o M1, FullPayload),
     Message(<< "sengled", "/" >> \o M1 \o << "/", "status" >>, FullPayload)}

\* status messages in arrival order: well-formed ones, with and without
\* supportAttributes, and malformed ones
IngestMessages ==
    {Message(Topic(M1, "status"), FullPayload),
     Message(Topic(M1, "status"), PlainPayload(M1)),
     Message(Topic(M2, "status"), PlainPayload(M2)),
     Message(Topic(M1, "status"), NumberPayload),
     Message(Topic(M1, "status"), InvalidPayload)}

\* supportAttributes with blanks around its tokens
SpacedAttributes ==
    SUPPORT :> JStr(<< " ", "brightness", ",", " ", "switch", " ", ",",
                       "color" >>)

\* calls with and without supportAttributes, on new and on stored records
CapsCalls ==
    {Call(M1, Status(FullAttributes)),
     Call(M1, Status(SpacedAttributes)),
     Call(M1, Status(FirmwareAttributes)),
     Call(M1, NoAttributes),
     Call(M2, Status(FirmwareAttributes)),
     Call(M2, Status(SpacedAttributes))}

\* calls that are all accepted: two identifiers, merged attributes within
\* the size limit
AcceptedCalls ==
    {Call(M1, Status(FullAttributes)),
     Call(M1lower, Status(FirmwareAttributes)),
     Call(M2, Status(FirmwareAttributes))}

\* calls whose merged attributes are under, at and over the size limit
SizeCalls ==
    {Call(M1, Status(FullAttributes)),
     Call(M1, Status(FirmwareAttributes)),
     Call(M1, Status(BuildAttributes)),
     Call(M2, Status(LongAttributes)),
     Call(M2, Status(FullAttributes))}

\* the calls and messages of the specifications with failing file operations
FewCalls ==
    {Call(M1, Status(FullAttributes)),
     Call(M1lower, Status(FirmwareAttributes)),
     Call(M2, Status(LongAttributes))}

FewMessages ==
    {Message(Topic(M2, "status"), FullPayload),
     Message(Topic(M1, "status"), FourPayload)}

----------------------------------------------------------------------------
(* State.                                                                  *)

VARIABLES
    devices,        \* self._devices
    devices_file,   \* the file devices.json
    temp_file,      \* the file devices.tmp
    now,            \* the clock, int(time.time() * 1000)
    pc,             \* where the calling thread is
    call,           \* the call it is making
    ret,            \* what that call returns
    save_failed,    \* _save_devices logged "Failed to save devices" in this call
    writer,         \* the locals of an update_device that runs statement by statement
    reader,         \* what a reader thread holds from get_device or get_all_devices
    sweep,          \* the locals of a cleanup_old_devices that runs in its own thread
    listener        \* the MQTT listener: its flags, its thread, the client and the broker

vars == << devices, devices_file, temp_file, now, pc, call, ret, save_failed,
           writer, reader, sweep, listener >>

NoCall ==
    [op |-> "none", mac |-> << >>, status_data |-> NoAttributes,
     topic |-> << >>, payload |-> InvalidPayload, max_age_days |-> 0]
NoRet == [v |-> "none", n |-> 0]
Returns(v) == [v |-> v, n |-> 0]

\* no update_device is between its statements.  device is the local variable
\* device, is_new_device the local of that name, before the mapping when the
\* call began.
NoWriter == [device |-> NoDevice, is_new_device |-> FALSE, before |-> << >>]

\* the reader holds nothing.  Otherwise result is the mapping it was given
\* (for get_device a mapping of one record, empty for None), live the keys
\* whose record is still the record object of the store, frozen the records
\* that the store has dropped, as they were when it dropped them, and at
\* where the listener thread was when the reader was given the result.
NoRead ==
    [op |-> "none", mac |-> << >>, result |-> << >>, live |-> {},
     frozen |-> << >>, at |-> "idle"]

\* the reader's mapping after the store deleted the records of the keys old:
\* the reader keeps the deleted record objects, the store will make new ones
Unlink(r, devs, old) ==
    [r EXCEPT !.live = @ \ old,
              !.frozen = [m \in DOMAIN r.result |->
                            IF m \in r.live \cap old THEN devs[m]
                            ELSE r.frozen[m]]]

\* DeviceStorage() on an empty storage directory
\* the listener as constructed (lines 52-55), not started.  running and
\* connected are the attributes of those names, thread is where the listener
\* thread is in _run_listener, retry_delay its local of that name, state the
\* client's own state (disconnect() asked for or not), broker whether the
\* broker can be reached, stop where a caller of stop() is.
NoListener ==
    [running |-> FALSE, connected |-> FALSE, thread |-> "none",
     retry_delay |-> 10, state |-> "new", broker |-> "up", stop |-> "none"]

\* no cleanup_old_devices runs in a thread of its own.  cutoff_time and
\* old_devices are the locals of those names; refreshed records the
\* identifiers that update_device stored while the sweep was running.
NoSweep ==
    [pc |-> "idle", cutoff_time |-> 0, old_devices |-> {}, count |-> 0,
     refreshed |-> {}]

Init ==
    /\ devices = << >>
    /\ devices_file = Absent
    /\ temp_file = Absent
    /\ now = 0
    /\ pc = "idle"
    /\ call = NoCall
    /\ ret = NoRet
    /\ save_failed = FALSE
    /\ writer = NoWriter
    /\ reader = NoRead
    /\ sweep = NoSweep
    /\ listener = NoListener

----------------------------------------------------------------------------
(* Operations.  A call changes the in-memory mapping in one step; when it  *)
(* goes on to _save_devices, the three steps of the save follow, and the   *)
(* call returns at pc = "done".                                            *)

UpdateDeviceFrom(calls) ==
    /\ pc = "idle"
    /\ \E c \in calls :
         LET r == update_device(devices, c.mac, c.status_data, now)
         IN  /\ devices' = r.devices
             /\ call' = [NoCall EXCEPT !.op = "update_device", !.mac = c.mac,
                                       !.status_data = c.status_data]
             /\ pc' = IF r.outcome = "stored" THEN "save_open" ELSE "done"
             /\ ret' = Returns(CASE r.outcome = "stored" -> "True"
                                 [] r.outcome = "raise" -> "raise"
                                 [] OTHER -> "False")
    /\ UNCHANGED << devices_file, temp_file, now, save_failed, writer, reader,
                    sweep, listener >>

ProcessMqttMessageFrom(messages) ==
    /\ pc = "idle"
    /\ \E msg \in messages :
         LET r == process_mqtt_message(devices, msg.topic, msg.payload, now)
         IN  /\ devices' = r.devices
             /\ call' = [NoCall EXCEPT !.op = "process_mqtt_message",
                                       !.topic = msg.topic,
                                       !.payload = msg.payload]
             /\ pc' = IF r.outcome = "stored" THEN "save_open" ELSE "done"
             \* except Exception: return False
             /\ ret' = Returns(IF r.outcome = "stored" THEN "True" ELSE "False")
    /\ UNCHANGED << devices_file, temp_file, now, save_failed, writer, reader,
                    sweep, listener >>

UpdateDevice == UpdateDeviceFrom(Calls)

ProcessMqttMessage == ProcessMqttMessageFrom(Messages)

\* mutant of CleanupOldDevices: the sweep saves also when it removed nothing
CleanupOldDevices_resaved ==
    /\ pc = "idle"
    /\ \E max_age_days \in Days :
         LET old == old_devices(devices, now, max_age_days)
         IN  /\ devices' = cleanup_old_devices(devices, now, max_age_days)
             /\ call' = [NoCall EXCEPT !.op = "cleanup_old_devices",
                                       !.max_age_days = max_age_days]
             /\ pc' = "save_open"
             /\ ret' = [v |-> "count", n |-> Cardinality(old)]
             /\ reader' = Unlink(reader, devices, old)
    /\ UNCHANGED << devices_file, temp_file, now, save_failed, writer, sweep, listener >>

\* mutant of CleanupOldDevices: the sweep does not save what it removed
CleanupOldDevices_unsaved ==
    /\ pc = "idle"
    /\ \E max_age_days \in Days :
         LET old == old_devices(devices, now, max_age_days)
         IN  /\ devices' = cleanup_old_devices(devices, now, max_age_days)
             /\ call' = [NoCall EXCEPT !.op = "cleanup_old_devices",
                                       !.max_age_days = max_age_days]
             /\ pc' = "done"
             /\ ret' = [v |-> "count", n |-> Cardinality(old)]
             /\ reader' = Unlink(reader, devices, old)
    /\ UNCHANGED << devices_file, temp_file, now, save_failed, writer, sweep, listener >>

CleanupOldDevices ==
    /\ pc = "idle"
    /\ \E max_age_days \in Days :
         LET old == old_devices(devices, now, max_age_days)
         IN  /\ devices' = cleanup_old_devices(devices, now, max_age_days)
             /\ call' = [NoCall EXCEPT !.op = "cleanup_old_devices",
                                       !.max_age_days = max_age_days]
             /\ pc' = IF old # {} THEN "save_open" ELSE "done"
             /\ ret' = [v |-> "count", n |-> Cardinality(old)]
             \* del self._devices[mac]: a reader keeps the deleted records
             /\ reader' = Unlink(reader, devices, old)
    /\ UNCHANGED << devices_file, temp_file, now, save_failed, writer, sweep, listener >>

\* mutant of SaveOpen: the snapshot is written in place, open(devices_file, 'w')
SaveOpen_in_place ==
    /\ pc = "save_open"
    /\ devices_file' = Partial
    /\ pc' = "save_dump"
    /\ UNCHANGED << devices, temp_file, now, call, ret, save_failed, writer,
                    reader, sweep, listener >>

\* open(temp_file, 'w'): the temporary file is created or truncated
SaveOpen ==
    /\ pc = "save_open"
    /\ temp_file' = Partial
    /\ pc' = "save_dump"
    /\ UNCHANGED << devices, devices_file, now, call, ret, save_failed, writer,
                    reader, sweep, listener >>

\* json.dump(self._devices, f, indent=2) and the close of the file
SaveDump ==
    /\ pc = "save_dump"
    /\ temp_file' = JsonDump(devices)
    /\ pc' = "save_replace"
    /\ UNCHANGED << devices, devices_file, now, call, ret, save_failed, writer,
                    reader, sweep, listener >>

\* mutant of SaveReplace: the temporary file is removed and never renamed
SaveReplace_dropped ==
    /\ pc = "save_replace"
    /\ temp_file' = Absent
    /\ pc' = "done"
    /\ UNCHANGED << devices, devices_file, now, call, ret, save_failed, writer,
                    reader, sweep, listener >>

\* temp_file.replace(self.devices_file)
SaveReplace ==
    /\ pc = "save_replace"
    /\ devices_file' = temp_file
    /\ temp_file' = Absent
    /\ pc' = "done"
    /\ UNCHANGED << devices, now, call, ret, save_failed, writer, reader, sweep, listener >>

\* the call returns to its caller
Return ==
    /\ pc = "done"
    /\ pc' = "idle"
    /\ call' = NoCall
    /\ ret' = NoRet
    /\ save_failed' = FALSE
    /\ writer' = NoWriter
    /\ UNCHANGED << devices, devices_file, temp_file, now, reader, sweep, listener >>

\* a day passes between two calls
Tick ==
    /\ pc = "idle"
    /\ now < MaxTicks * DAY_MS
    /\ now' = now + DAY_MS
    /\ UNCHANGED << devices, devices_file, temp_file, pc, call, ret, save_failed,
                    writer, reader, sweep, listener >>

Next ==
    \/ UpdateDevice
    \/ ProcessMqttMessage
    \/ CleanupOldDevices
    \/ SaveOpen
    \/ SaveDump
    \/ SaveReplace
    \/ Return
    \/ Tick

\* every file operation succeeds and the process keeps running
Spec == Init /\ [][Next]_vars

NextStore ==
    \/ UpdateDevice
    \/ CleanupOldDevices
    \/ SaveOpen
    \/ SaveDump
    \/ SaveReplace
    \/ Return
    \/ Tick

\* the store called directly: updates and sweeps only, no message
SpecStore == Init /\ [][NextStore]_vars

\* update_device called with attribute sets around the size limit
UpdateDeviceSize == UpdateDeviceFrom(SizeCalls)

NextSize ==
    \/ UpdateDeviceSize
    \/ SaveOpen
    \/ SaveDump
    \/ SaveReplace
    \/ Return
    \/ Tick

\* the store called with update_device only
SpecSize == Init /\ [][NextSize]_vars

\* update_device called with and without supportAttributes
UpdateDeviceCaps == UpdateDeviceFrom(CapsCalls)

NextCaps ==
    \/ UpdateDeviceCaps
    \/ SaveOpen
    \/ SaveDump
    \/ SaveReplace
    \/ Return
    \/ Tick

\* the store called with update_device only, supportAttributes varying
SpecCaps == Init /\ [][NextCaps]_vars

\* _on_message: the listener hands each message to process_mqtt_message
ProcessIngestMessage == ProcessMqttMessageFrom(IngestMessages)

NextIngest ==
    \/ ProcessIngestMessage
    \/ SaveOpen
    \/ SaveDump
    \/ SaveReplace
    \/ Return
    \/ Tick

\* the listener delivering status messages one after the other
SpecIngest == Init /\ [][NextIngest]_vars

\* get_storage_stats called between the other operations: a read, its result
\* is what the call returns
GetStorageStats ==
    /\ pc = "idle"
    /\ call' = [NoCall EXCEPT !.op = "get_storage_stats"]
    /\ ret' = [v |-> "stats", n |-> get_storage_stats(devices)]
    /\ pc' = "done"
    /\ UNCHANGED << devices, devices_file, temp_file, now, save_failed, writer,
                    reader, sweep, listener >>

\* update_device as called between the reads of the statistics
UpdateDeviceStats == UpdateDeviceFrom(FewCalls)

NextStats ==
    \/ UpdateDeviceStats
    \/ CleanupOldDevices
    \/ GetStorageStats
    \/ SaveOpen
    \/ SaveDump
    \/ SaveReplace
    \/ Return
    \/ Tick

\* updates, sweeps and get_storage_stats
SpecStats == Init /\ [][NextStats]_vars

----------------------------------------------------------------------------
(* Failing file operations: _save_devices catches the exception, logs it   *)
(* and returns, and the call that saved goes on to its return.             *)

\* open raises: the temporary file is left as it was
SaveOpenFails ==
    /\ pc = "save_open"
    /\ pc' = "done"
    /\ save_failed' = TRUE
    /\ UNCHANGED << devices, devices_file, temp_file, now, call, ret, writer,
                    reader, sweep, listener >>

\* mutant of SaveDumpFails: the exception is not caught and leaves the call
SaveDumpFails_uncaught ==
    /\ pc = "save_dump"
    /\ pc' = "done"
    /\ save_failed' = TRUE
    /\ ret' = Returns("raise")
    /\ UNCHANGED << devices, devices_file, temp_file, now, call, writer,
                    reader, sweep, listener >>

\* a write of json.dump raises: the temporary file is left half-written
SaveDumpFails ==
    /\ pc = "save_dump"
    /\ pc' = "done"
    /\ save_failed' = TRUE
    /\ UNCHANGED << devices, devices_file, temp_file, now, call, ret, writer,
                    reader, sweep, listener >>

\* replace raises: both files are left as they were
SaveReplaceFails ==
    /\ pc = "save_replace"
    /\ pc' = "done"
    /\ save_failed' = TRUE
    /\ UNCHANGED << devices, devices_file, temp_file, now, call, ret, writer,
                    reader, sweep, listener >>

\* the calls made while file operations fail: a creation, two merges, a
\* merge that is too large, a sweep
UpdateDeviceFew == UpdateDeviceFrom(FewCalls)

ProcessMqttMessageFew == ProcessMqttMessageFrom(FewMessages)

NextFail ==
    \/ UpdateDeviceFew
    \/ ProcessMqttMessageFew
    \/ CleanupOldDevices
    \/ SaveOpen
    \/ SaveDump
    \/ SaveReplace
    \/ Return
    \/ Tick
    \/ SaveOpenFails
    \/ SaveDumpFails
    \/ SaveReplaceFails

\* file operations may fail
SpecFail == Init /\ [][NextFail]_vars

----------------------------------------------------------------------------
(* A crash of the process and its restart on the same storage directory.   *)

\* the process dies: memory is lost, the files stay as they are
Crash ==
    /\ pc # "crashed"
    /\ pc' = "crashed"
    /\ devices' = << >>
    /\ call' = NoCall
    /\ ret' = NoRet
    /\ save_failed' = FALSE
    /\ writer' = NoWriter
    /\ reader' = NoRead
    /\ sweep' = NoSweep
    /\ UNCHANGED << devices_file, temp_file, now, listener >>

\* DeviceStorage() again: _load_devices
Restart ==
    /\ pc = "crashed"
    /\ pc' = "idle"
    /\ devices' = load_devices(devices_file)
    /\ UNCHANGED << devices_file, temp_file, now, call, ret, save_failed,
                    writer, reader, sweep, listener >>

NextCrash ==
    \/ NextFail
    \/ Crash
    \/ Restart

\* file operations may fail and the process may crash at any step
SpecCrash == Init /\ [][NextCrash]_vars

\* update_device called with calls that are all accepted
UpdateDeviceAccepted == UpdateDeviceFrom(AcceptedCalls)

\* while the process is down the canonical file is damaged: what is left of
\* it is a text json.load rejects
DamageFile ==
    /\ pc = "crashed"
    /\ devices_file.kind = "complete"
    /\ devices_file' = Partial
    /\ UNCHANGED << devices, temp_file, now, pc, call, ret, save_failed,
                    writer, reader, sweep, listener >>

NextRestart ==
    \/ UpdateDeviceAccepted
    \/ CleanupOldDevices
    \/ SaveOpen
    \/ SaveDump
    \/ SaveReplace
    \/ Return
    \/ Tick
    \/ Crash
    \/ DamageFile
    \/ Restart

\* accepted updates and sweeps whose writes succeed, and a process that may
\* stop at any step and start again on the same storage directory
SpecRestart == Init /\ [][NextRestart]_vars

----------------------------------------------------------------------------
(* Threads.  The listener thread runs update_device statement by statement *)
(* and a reader thread (a request handler of the HTTP server) calls        *)
(* get_device and get_all_devices between any two of its statements: the   *)
(* store has no lock.  For a known identifier the local variable device is *)
(* the stored record itself, so an assignment to it is an assignment in    *)
(* the mapping; for a new identifier it is a new dict that reaches the     *)
(* mapping at self._devices[mac] = device.                                 *)

\* the calls of the listener thread: creations, merges, a merge that is too
\* large and a creation over the ceiling
ThreadCalls == FewCalls \cup {Call(M3, Status(FullAttributes))}

\* the identifiers the reader thread asks for
ReaderMacs == {M1lower, M2}

\* device[...] = ...: an assignment to the local variable device
AssignDevice(d) ==
    /\ writer' = [writer EXCEPT !.device = d]
    /\ devices' = IF writer.is_new_device THEN devices
                  ELSE [devices EXCEPT ![Upper(call.mac)] = d]

\* lines 113-133: the checks of the identifier and of the ceiling, and
\* self._devices.get(mac, {...})
BeginUpdate ==
    /\ pc = "idle"
    /\ \E c \in ThreadCalls :
         LET m == Upper(c.mac)
             is_new_device == m \notin DOMAIN devices
         IN  /\ call' = [NoCall EXCEPT !.op = "update_device", !.mac = c.mac,
                                       !.status_data = c.status_data]
             /\ IF c.mac = << >> \/ (is_new_device /\ AtCapacity(devices))
                THEN /\ pc' = "done"
                     /\ ret' = Returns("False")
                     /\ writer' = NoWriter
                ELSE /\ pc' = "set_last_seen"
                     /\ ret' = NoRet
                     /\ writer' = [device |-> GetDevice(devices, m, now),
                                   is_new_device |-> is_new_device,
                                   before |-> devices]
    /\ UNCHANGED << devices, devices_file, temp_file, now, save_failed, reader,
                    sweep, listener >>

\* line 136: device['last_seen'] = current_time
SetLastSeen ==
    /\ pc = "set_last_seen"
    /\ AssignDevice([writer.device EXCEPT !.last_seen = now])
    /\ pc' = "set_attributes"
    /\ UNCHANGED << devices_file, temp_file, now, call, ret, save_failed,
                    reader, sweep, listener >>

\* lines 139-150: the merge, the size check and device['attributes'] = ...
SetAttributes ==
    /\ pc = "set_attributes"
    /\ LET updated_attributes ==
               Merge(writer.device.attributes, call.status_data.attributes)
       IN  IF ~call.status_data.has_attributes
           THEN pc' = "set_capabilities" /\ UNCHANGED << devices, writer, ret >>
           ELSE IF TooLarge(updated_attributes)
           THEN /\ pc' = "done"
                /\ ret' = Returns("False")
                /\ UNCHANGED << devices, writer >>
           ELSE /\ pc' = "set_capabilities"
                /\ AssignDevice([writer.device EXCEPT
                                    !.attributes = updated_attributes])
                /\ UNCHANGED ret
    /\ UNCHANGED << devices_file, temp_file, now, call, save_failed, reader, sweep, listener >>

\* lines 153-155: device['capabilities'] = [...]
SetCapabilities ==
    /\ pc = "set_capabilities"
    /\ IF SUPPORT \notin DOMAIN writer.device.attributes
       THEN pc' = "store" /\ UNCHANGED << devices, writer, ret >>
       ELSE IF writer.device.attributes[SUPPORT].t # "str"
       THEN /\ pc' = "done"
            /\ ret' = Returns("raise")
            /\ UNCHANGED << devices, writer >>
       ELSE /\ pc' = "store"
            /\ AssignDevice([writer.device EXCEPT !.capabilities =
                   Capabilities(writer.device.attributes[SUPPORT].text)])
            /\ UNCHANGED ret
    /\ UNCHANGED << devices_file, temp_file, now, call, save_failed, reader, sweep, listener >>

\* line 158: self._devices[mac] = device; _save_devices follows
StoreDevice ==
    /\ pc = "store"
    /\ devices' = Store(devices, Upper(call.mac), writer.device)
    /\ pc' = "save_open"
    /\ ret' = Returns("True")
    /\ UNCHANGED << devices_file, temp_file, now, call, save_failed, writer,
                    reader, sweep, listener >>

\* the reader thread calls get_device
ReadGetDevice ==
    /\ \E x \in ReaderMacs :
         LET r == get_device(devices, x)
             result == IF r = NoDevice THEN << >> ELSE (Upper(x) :> r)
         IN  reader' = [op |-> "get_device", mac |-> x, result |-> result,
                        live |-> DOMAIN result, frozen |-> result,
                        at |-> pc]
    /\ UNCHANGED << devices, devices_file, temp_file, now, pc, call, ret,
                    save_failed, writer, sweep, listener >>

\* the reader thread calls get_all_devices
ReadGetAllDevices ==
    /\ LET result == get_all_devices(devices)
       IN  reader' = [op |-> "get_all_devices", mac |-> << >>,
                      result |-> result, live |-> DOMAIN result,
                      frozen |-> result, at |-> pc]
    /\ UNCHANGED << devices, devices_file, temp_file, now, pc, call, ret,
                    save_failed, writer, sweep, listener >>

NextThreads ==
    \/ BeginUpdate
    \/ SetLastSeen
    \/ SetAttributes
    \/ SetCapabilities
    \/ StoreDevice
    \/ SaveOpen
    \/ SaveDump
    \/ SaveReplace
    \/ Return
    \/ CleanupOldDevices
    \/ Tick
    \/ ReadGetDevice
    \/ ReadGetAllDevices

\* a listener thread and a reader thread; every file operation succeeds
SpecThreads == Init /\ [][NextThreads]_vars

----------------------------------------------------------------------------
(* A sweep in a thread of its own.  cleanup_old_devices first lists the    *)
(* old identifiers, then deletes them one by one, then saves; the listener *)
(* thread may run update_device between any two of these steps: the store  *)
(* has no lock.  Here each update_device changes the mapping in one step    *)
(* and the two saves do not overlap.                                       *)

\* update_device in the listener thread while the sweep may be running
UpdateDeviceDuringSweep ==
    /\ pc = "idle"
    /\ \E c \in AcceptedCalls :
         LET r == update_device(devices, c.mac, c.status_data, now)
         IN  /\ devices' = r.devices
             /\ call' = [NoCall EXCEPT !.op = "update_device", !.mac = c.mac,
                                       !.status_data = c.status_data]
             /\ pc' = IF r.outcome = "stored" THEN "save_open" ELSE "done"
             /\ ret' = Returns(CASE r.outcome = "stored" -> "True"
                                 [] r.outcome = "raise" -> "raise"
                                 [] OTHER -> "False")
             /\ sweep' = IF r.outcome = "stored" /\ sweep.pc \in {"delete", "save"}
                         THEN [sweep EXCEPT !.refreshed = @ \cup {Upper(c.mac)}]
                         ELSE sweep
    /\ UNCHANGED << devices_file, temp_file, now, save_failed, writer, reader, listener >>

\* lines 224-229: cutoff_time and the list old_devices
SweepBegin ==
    /\ sweep.pc = "idle"
    /\ \E max_age_days \in Days :
         LET old == old_devices(devices, now, max_age_days)
         IN  sweep' = [pc |-> IF old = {} THEN "done" ELSE "delete",
                       cutoff_time |-> CutoffTime(now, max_age_days),
                       old_devices |-> old,
                       count |-> Cardinality(old),
                       refreshed |-> {}]
    /\ UNCHANGED << devices, devices_file, temp_file, now, pc, call, ret,
                    save_failed, writer, reader, listener >>

\* lines 231-233: del self._devices[mac] for the next mac of old_devices
SweepDelete ==
    /\ sweep.pc = "delete"
    /\ \E mac \in sweep.old_devices :
         /\ devices' = [m \in DOMAIN devices \ {mac} |-> devices[m]]
         /\ reader' = Unlink(reader, devices, {mac})
         /\ sweep' = [sweep EXCEPT
                         !.old_devices = @ \ {mac},
                         !.pc = IF sweep.old_devices = {mac} THEN "save"
                                ELSE "delete"]
    /\ UNCHANGED << devices_file, temp_file, now, pc, call, ret, save_failed,
                    writer, listener >>

\* lines 235-236: self._save_devices(), run while the listener thread is not
\* writing the temporary file
SweepSave ==
    /\ sweep.pc = "save"
    /\ pc \notin {"save_dump", "save_replace"}
    /\ devices_file' = JsonDump(devices)
    /\ temp_file' = Absent
    /\ sweep' = [sweep EXCEPT !.pc = "done"]
    /\ UNCHANGED << devices, now, pc, call, ret, save_failed, writer, reader, listener >>

\* line 238: return len(old_devices)
SweepReturn ==
    /\ sweep.pc = "done"
    /\ sweep' = NoSweep
    /\ UNCHANGED << devices, devices_file, temp_file, now, pc, call, ret,
                    save_failed, writer, reader, listener >>

NextSweep ==
    \/ UpdateDeviceDuringSweep
    \/ SaveOpen
    \/ SaveDump
    \/ SaveReplace
    \/ Return
    \/ Tick
    \/ SweepBegin
    \/ SweepDelete
    \/ SweepSave
    \/ SweepReturn

\* a listener thread and a sweep thread; every file operation succeeds
SpecSweep == Init /\ [][NextSweep]_vars

----------------------------------------------------------------------------
(* Start-up over a snapshot file that this store did not write.            *)
(* _load_devices takes whatever json.load returns as the mapping.          *)

\* a record as it stands in a snapshot file
FileRecord(mac) ==
    [NewDevice(mac, 0) EXCEPT !.attributes = FirmwareAttributes]

\* snapshot files that decode as JSON objects: one written by the store, one
\* with a lowercase key, one with more records than MAX_DEVICES
StartFiles ==
    {JsonDump(M1 :> FileRecord(M1)),
     JsonDump(M1lower :> FileRecord(M1lower)),
     JsonDump([m \in {M1, M2, M3} |-> FileRecord(m)])}

\* the process is about to start over one of the files
InitLoad ==
    /\ devices = << >>
    /\ devices_file \in StartFiles
    /\ temp_file = Absent
    /\ now = 0
    /\ pc = "crashed"
    /\ call = NoCall
    /\ ret = NoRet
    /\ save_failed = FALSE
    /\ writer = NoWriter
    /\ reader = NoRead
    /\ sweep = NoSweep
    /\ listener = NoListener

\* update_device on the loaded store
UpdateDeviceLoaded == UpdateDeviceFrom(FewCalls)

NextLoad ==
    \/ Restart
    \/ UpdateDeviceLoaded
    \/ CleanupOldDevices
    \/ SaveOpen
    \/ SaveDump
    \/ SaveReplace
    \/ Return
    \/ Tick

\* start-up over a given file, then updates and sweeps
SpecLoad == InitLoad /\ [][NextLoad]_vars

----------------------------------------------------------------------------
(* The MQTT listener: start(), stop() and the thread of _run_listener.     *)
(* The thread is inside client.loop_forever() while it is at "loop" (a     *)
(* connection is open), "reconnect_wait" or "reconnect" (the connection    *)
(* was lost and the client's network loop reconnects by itself);           *)
(* loop_forever returns only once client.disconnect() has been called.     *)

\* the variables of the device store
store_vars ==
    << devices, devices_file, temp_file, now, pc, call, ret, save_failed,
       writer, reader, sweep >>

\* max_retry_delay, in seconds
MAX_RETRY_DELAY == 120

\* lines 159-168: start() on a listener that is not running
Start ==
    /\ listener.thread = "none"
    /\ ~listener.running
    /\ listener' = [listener EXCEPT !.running = TRUE, !.thread = "while",
                                    !.retry_delay = 10]
    /\ UNCHANGED store_vars

\* lines 191-193: while self.running, if not self.connected
WhileRunning ==
    /\ listener.thread = "while"
    /\ ~listener.running \/ ~listener.connected
    /\ listener' = [listener EXCEPT
                       !.thread = IF ~listener.running THEN "terminated"
                                  ELSE "connect"]
    /\ UNCHANGED store_vars

\* lines 200-210: client.connect(); it returns 0 and loop_forever is entered,
\* or it raises because the broker cannot be reached
Connect ==
    /\ listener.thread = "connect"
    /\ listener' = IF listener.broker = "up"
                   THEN [listener EXCEPT !.thread = "loop", !.state = "new"]
                   ELSE [listener EXCEPT !.thread = "except", !.state = "new"]
    /\ UNCHANGED store_vars

\* lines 100-104, called from the network loop: the broker accepted the
\* connection
OnConnect ==
    /\ listener.thread = "loop"
    /\ listener.broker = "up"
    /\ listener.state = "new"
    /\ ~listener.connected
    /\ listener' = [listener EXCEPT !.connected = TRUE]
    /\ UNCHANGED store_vars

\* lines 121-127, called from the network loop when the connection is gone
\* (the broker went away, or disconnect() closed it); loop_forever returns
\* if disconnect() was called (lines 205-207) and reconnects otherwise
OnDisconnect ==
    /\ listener.thread = "loop"
    /\ listener.broker = "down" \/ listener.state = "disconnecting"
    /\ listener' = [listener EXCEPT
                       !.connected = FALSE,
                       !.thread = IF listener.state = "disconnecting"
                                  THEN "while" ELSE "reconnect_wait"]
    /\ UNCHANGED store_vars

\* line 204, inside loop_forever: the wait before the next reconnect is over
ReconnectWait ==
    /\ listener.thread = "reconnect_wait"
    /\ listener' = [listener EXCEPT
                       !.connected = FALSE,
                       !.thread = IF listener.state = "disconnecting"
                                  THEN "while" ELSE "reconnect"]
    /\ UNCHANGED store_vars

\* line 204, inside loop_forever: the client reconnects, or fails to and
\* waits again
Reconnect ==
    /\ listener.thread = "reconnect"
    /\ listener' = [listener EXCEPT
                       !.thread = IF listener.broker = "up" THEN "loop"
                                  ELSE "reconnect_wait"]
    /\ UNCHANGED store_vars

\* lines 212-222: except Exception as conn_error
ConnectionError ==
    /\ listener.thread = "except"
    /\ listener' = [listener EXCEPT
                       !.connected = FALSE,
                       !.state = IF listener.connected THEN "disconnecting"
                                 ELSE @,
                       !.thread = IF listener.running THEN "sleep"
                                  ELSE "while"]
    /\ UNCHANGED store_vars

\* lines 220-222: time.sleep(retry_delay) is over; retry_delay doubles
Sleep ==
    /\ listener.thread = "sleep"
    /\ listener' = [listener EXCEPT
                       !.retry_delay =
                           IF @ * 2 < MAX_RETRY_DELAY THEN @ * 2
                           ELSE MAX_RETRY_DELAY,
                       !.thread = "while"]
    /\ UNCHANGED store_vars

\* lines 172-176: stop() on a running listener sets running to False
Stop ==
    /\ listener.stop = "none"
    /\ listener.running
    /\ listener' = [listener EXCEPT !.running = FALSE, !.stop = "called"]
    /\ UNCHANGED store_vars

\* lines 178-179: if self.connected: self.client.disconnect()
StopDisconnect ==
    /\ listener.stop = "called"
    /\ listener' = [listener EXCEPT
                       !.state = IF listener.connected THEN "disconnecting"
                                 ELSE @,
                       !.stop = "join"]
    /\ UNCHANGED store_vars

\* lines 181-184: join(timeout=5.0) returns, the thread ended or not
StopJoin ==
    /\ listener.stop = "join"
    /\ listener' = [listener EXCEPT !.stop = "returned"]
    /\ UNCHANGED store_vars

\* the broker stops, or can be reached again
BrokerChange ==
    /\ listener' = [listener EXCEPT
                       !.broker = IF @ = "up" THEN "down" ELSE "up"]
    /\ UNCHANGED store_vars

\* the steps of the listener thread
ListenerThread ==
    \/ WhileRunning
    \/ Connect
    \/ OnConnect
    \/ OnDisconnect
    \/ ReconnectWait
    \/ Reconnect
    \/ ConnectionError
    \/ Sleep

\* the steps of the thread that calls stop()
StopCaller ==
    \/ StopDisconnect
    \/ StopJoin

NextListener ==
    \/ Start
    \/ ListenerThread
    \/ Stop
    \/ StopCaller
    \/ BrokerChange

\* the listener with a broker that comes and goes; a thread that can take a
\* step eventually takes it
SpecListener ==
    /\ Init
    /\ [][NextListener]_vars
    /\ WF_vars(ListenerThread)
    /\ WF_vars(StopCaller)

----------------------------------------------------------------------------
(* Claims.                                                                 *)

\* the identifier an update_device call is about
CallKey == Upper(call.mac)
CallKeyNext == Upper(call'.mac)

\* a step in which update_device is called
UpdateCalled == pc = "idle" /\ call'.op = "update_device"

\* a step in which process_mqtt_message is called
MessageCalled == pc = "idle" /\ call'.op = "process_mqtt_message"

\* a mapping with every last_seen blanked
ModLastSeen(devs) == [m \in DOMAIN devs |-> [devs[m] EXCEPT !.last_seen = 0]]

\* C1: the number of distinct identifiers in the in-memory mapping is never
\* greater than MAX_DEVICES, after any sequence of updates, messages and sweeps
\* from an empty store.
C1_CapacityInvariant == Cardinality(DOMAIN devices) <= MAX_DEVICES

\* C1, witness: the store is full and an update for a new identifier was rejected.
C1_Witness ==
    /\ pc = "done" /\ call.op = "update_device" /\ ret.v = "False"
    /\ call.mac # << >> /\ CallKey \notin DOMAIN devices
    /\ Cardinality(DOMAIN devices) = MAX_DEVICES

\* C2: at the ceiling, update_device for an identifier not in the store
\* returns False and leaves the mapping and the snapshot file unchanged, and
\* update_device for an identifier in the store whose merged attributes are
\* within the size limit is accepted.
C2_CeilingKeepsExisting ==
    [][(UpdateCalled /\ Cardinality(DOMAIN devices) = MAX_DEVICES) =>
          IF CallKeyNext \notin DOMAIN devices
          THEN /\ ret'.v = "False" /\ pc' = "done"
               /\ devices' = devices
               /\ devices_file' = devices_file
          ELSE (call'.status_data.has_attributes =>
                   JsonSize([k \in DOMAIN devices[CallKeyNext].attributes
                                    \cup DOMAIN call'.status_data.attributes |->
                               IF k \in DOMAIN call'.status_data.attributes
                               THEN call'.status_data.attributes[k]
                               ELSE devices[CallKeyNext].attributes[k]])
                     <= MAX_DEVICE_SIZE_BYTES)
               => (ret'.v = "True" /\ pc' = "save_open")]_vars

\* C3: an update_device on a stored identifier whose merged attributes
\* serialize to more than MAX_DEVICE_SIZE_BYTES returns False and leaves the
\* stored record (attributes, capabilities, first_seen, last_seen) and the
\* snapshot file as they were.
C3_TooLargeRejectedInFull ==
    [][(/\ UpdateCalled
        /\ CallKeyNext \in DOMAIN devices
        /\ call'.status_data.has_attributes
        /\ JsonSize([k \in DOMAIN devices[CallKeyNext].attributes
                             \cup DOMAIN call'.status_data.attributes |->
                        IF k \in DOMAIN call'.status_data.attributes
                        THEN call'.status_data.attributes[k]
                        ELSE devices[CallKeyNext].attributes[k]])
             > MAX_DEVICE_SIZE_BYTES) =>
          /\ ret'.v = "False"
          /\ devices'[CallKeyNext] = devices[CallKeyNext]
          /\ devices_file' = devices_file]_vars

\* C4: every step of a save, of a failed save and of a crash leaves the
\* canonical file a complete snapshot (or absent): the file is unchanged by
\* the step, or the step is the rename and the file becomes the complete
\* snapshot of the mapping being saved; a crash changes no file.
C4_AtomicDurability ==
    [][/\ devices_file'.kind \in {"absent", "complete"}
       /\ \/ devices_file' = devices_file
          \/ pc = "save_replace" /\ pc' = "done"
               /\ devices_file' = JsonDump(devices)
       /\ pc' = "crashed" => devices_file' = devices_file]_vars

\* C4, witness: a crash after the temporary file was written and before the
\* rename: the canonical file is the previous complete snapshot.
C4_Witness ==
    /\ pc = "crashed"
    /\ temp_file.kind = "complete"
    /\ devices_file.kind = "complete"
    /\ temp_file # devices_file

\* the canonical file holds a snapshot with the update of the call
SnapshotHasUpdate ==
    /\ devices_file.kind = "complete"
    /\ CallKey \in DOMAIN devices_file.data
    /\ devices_file.data[CallKey].last_seen = now
    /\ \A k \in DOMAIN call.status_data.attributes :
         /\ JsonKey(k) \in DOMAIN devices_file.data[CallKey].attributes
         /\ devices_file.data[CallKey].attributes[JsonKey(k)]
              = call.status_data.attributes[k]

\* C5, as claimed: whenever update_device returns True the canonical file
\* holds a snapshot with that update, also when file operations fail.
C5_SynchronousPersistence ==
    (pc = "done" /\ call.op = "update_device" /\ ret.v = "True")
        => SnapshotHasUpdate

\* C5, amended: whenever update_device returns True and _save_devices logged
\* no failure, the canonical file is the snapshot of the in-memory mapping
\* and holds that update.
C5_PersistedUnlessSaveFailed ==
    (pc = "done" /\ call.op = "update_device" /\ ret.v = "True"
       /\ ~save_failed)
        => (SnapshotHasUpdate /\ devices_file = JsonDump(devices))

\* C5, witness: an accepted merge into a stored record whose save succeeded,
\* in a store that holds two records: the canonical file holds both.
C5_Witness ==
    /\ pc = "done" /\ call.op = "update_device" /\ ret.v = "True"
    /\ ~save_failed
    /\ SnapshotHasUpdate
    /\ devices_file = JsonDump(devices)
    /\ Cardinality(DOMAIN devices_file.data) = MAX_DEVICES
    /\ devices_file.data[CallKey].first_seen < now

\* C6: whenever no call is in progress, the canonical file is a complete
\* snapshot equal to the in-memory mapping (absent: the empty mapping), while
\* every file operation succeeds.
C6_MemoryDiskConsistency ==
    pc = "idle" =>
        /\ devices_file.kind \in {"absent", "complete"}
        /\ load_devices(devices_file) = devices

\* C7: after an accepted update_device on a stored record, every incoming key
\* has the incoming value and every other key of the old mapping keeps its
\* value; the record has no other key.
C7_MergeSemantics ==
    [][(/\ UpdateCalled
        /\ ret'.v = "True"
        /\ CallKeyNext \in DOMAIN devices
        /\ call'.status_data.has_attributes) =>
          LET old == devices[CallKeyNext].attributes
              incoming == call'.status_data.attributes
              new == devices'[CallKeyNext].attributes
          IN  /\ DOMAIN new = DOMAIN old \cup DOMAIN incoming
              /\ \A k \in DOMAIN incoming : new[k] = incoming[k]
              /\ \A k \in DOMAIN old \ DOMAIN incoming : new[k] = old[k]]_vars

\* C7, witness: the firmware attribute was merged into a record that keeps
\* its five attributes.
C7_Witness ==
    /\ pc = "done" /\ call.op = "update_device" /\ ret.v = "True"
    /\ call.status_data = Status(FirmwareAttributes)
    /\ DOMAIN devices[CallKey].attributes
         = DOMAIN FullAttributes \cup DOMAIN FirmwareAttributes
    /\ devices[CallKey].attributes[K("brightness")] = K("25")
    /\ devices[CallKey].attributes[K("firmware")] = K("V0.0.130")

\* C8: in every store state between two calls, for every update_device call
\* and every message, applying it twice in a row (the second time at the same
\* or a later time) gives the mapping that applying it once gives, up to
\* last_seen.
C8_Idempotence ==
    pc = "idle" => \A dt \in {0, DAY_MS} :
      /\ \A c \in Calls :
           LET once == update_device(devices, c.mac, c.status_data, now).devices
               twice == update_device(once, c.mac, c.status_data,
                                      now + dt).devices
           IN  ModLastSeen(twice) = ModLastSeen(once)
      /\ \A msg \in Messages :
           LET once == process_mqtt_message(devices, msg.topic, msg.payload,
                                            now).devices
               twice == process_mqtt_message(once, msg.topic, msg.payload,
                                             now + dt).devices
           IN  ModLastSeen(twice) = ModLastSeen(once)

\* C8, witness: a full status was accepted for a record that was created by
\* the same full status a day before.
C8_Witness ==
    /\ pc = "done" /\ call.op = "update_device" /\ ret.v = "True"
    /\ call.mac = M2 /\ call.status_data = Status(FullAttributes)
    /\ devices[M2].attributes = FullAttributes
    /\ devices[M2].first_seen < devices[M2].last_seen

\* C9: a message whose parsed attribute mapping has fewer than 5 entries
\* changes neither the mapping nor the files and starts no save; a message
\* on a status topic whose parsed mapping has 5 entries or more is given to
\* update_device under the identifier of the topic.
C9_ComprehensivenessFilter ==
    [][MessageCalled =>
          LET parsed == parse_status_message(call'.payload, now)
              n == Cardinality(DOMAIN parsed.attributes)
              parts == Split(call'.topic, "/")
          IN  /\ (parsed.ok /\ n < COMPREHENSIVE_THRESHOLD) =>
                    /\ devices' = devices
                    /\ devices_file' = devices_file /\ temp_file' = temp_file
                    /\ pc' = "done" /\ ret'.v = "False"
              /\ (/\ parsed.ok /\ n >= COMPREHENSIVE_THRESHOLD
                  /\ Len(parts) >= 3
                  /\ parts[1] = << "wifielement" >>
                  /\ parts[3] = << "status" >>) =>
                    LET r == update_device(devices, parts[2],
                                 Status(parsed.attributes), now)
                    IN  /\ devices' = r.devices
                        /\ (ret'.v = "True") = (r.outcome = "stored")
                        /\ (pc' = "save_open") = (r.outcome = "stored")]_vars

\* C9, witness: a status message with four attributes was ignored by a store
\* that holds records.
C9_Witness ==
    /\ pc = "done" /\ call.op = "process_mqtt_message" /\ ret.v = "False"
    /\ call.payload = FourPayload
    /\ call.topic = Topic(M1, "status")
    /\ devices # << >>

\* C10: a message whose topic has fewer than 3 segments, or whose first
\* segment is not wifielement, or whose third segment is not status, returns
\* False and changes neither the mapping nor the files, whatever its payload.
C10_TopicFilter ==
    [][MessageCalled =>
          LET parts == Split(call'.topic, "/")
          IN  (\/ Len(parts) < 3
               \/ parts[1] # << "wifielement" >>
               \/ parts[3] # << "status" >>) =>
                 /\ devices' = devices
                 /\ devices_file' = devices_file /\ temp_file' = temp_file
                 /\ pc' = "done" /\ ret'.v = "False"]_vars

\* C10, witness: a full status payload on a consumption topic was ignored.
C10_Witness ==
    /\ pc = "done" /\ call.op = "process_mqtt_message" /\ ret.v = "False"
    /\ call.topic = Topic(M1, "consumption")
    /\ call.payload = FullPayload
    /\ M1 \notin DOMAIN devices

\* the records a mapping holds under a key: one, or none
RecordsAt(devs, k) == IF k \in DOMAIN devs THEN {devs[k]} ELSE {}

\* C11: a get_device or get_all_devices that returns while update_device is
\* between its first and its last statement gives, under every key, the
\* record of the mapping before the update or the record of the mapping
\* after it.
C11_NoTornRead ==
    [][(reader' # reader /\ writer # NoWriter /\ pc # "done") =>
          LET after == update_device(writer.before, call.mac,
                                     call.status_data, now).devices
          IN  \A k \in DOMAIN reader'.result :
                 reader'.result[k] \in RecordsAt(writer.before, k)
                                        \cup RecordsAt(after, k)]_vars

\* the mapping that get_all_devices or get_device returned, as the reader
\* finds it now: a record the store still holds is the store's record
Returned ==
    [m \in DOMAIN reader.result |->
        IF m \in reader.live THEN devices[m] ELSE reader.frozen[m]]

\* C12: the mapping that get_all_devices returned while no update or sweep
\* was running keeps its identifiers and the fields of its records, whatever
\* updates and sweeps follow.
C12_ReturnedSnapshotFrozen ==
    (reader.op = "get_all_devices" /\ reader.at = "idle") =>
        Returned = reader.result

\* the in-memory mapping holds the update of the call
MemoryHasUpdate ==
    /\ CallKey \in DOMAIN devices
    /\ devices[CallKey].last_seen = now
    /\ \A k \in DOMAIN call.status_data.attributes :
         /\ k \in DOMAIN devices[CallKey].attributes
         /\ devices[CallKey].attributes[k] = call.status_data.attributes[k]

\* C13: a save leaves the canonical file alone up to its rename, and when
\* the open, the write or the rename of the save of an update_device fails,
\* the call goes on to return True (no exception leaves it), the in-memory
\* mapping is unchanged by the failure and holds the update, and the
\* canonical file is still the complete snapshot (or absent) that it was.
C13_PersistenceFailureHandling ==
    [][/\ pc \in {"save_open", "save_dump"} => devices_file' = devices_file
       /\ (save_failed' /\ ~save_failed) =>
             /\ devices_file' = devices_file
             /\ devices_file.kind \in {"absent", "complete"}
             /\ devices' = devices
             /\ pc' = "done" /\ ret' = ret /\ ret.v # "raise"
             /\ call.op = "update_device" =>
                   (ret.v = "True" /\ MemoryHasUpdate)]_vars

\* C13, witness: the rename failed in an update_device over an older snapshot:
\* the call returns True, the mapping holds the update, the canonical file is
\* the previous complete snapshot and the new one is left in the temporary
\* file.
C13_Witness ==
    /\ pc = "done" /\ call.op = "update_device" /\ ret.v = "True"
    /\ save_failed
    /\ MemoryHasUpdate
    /\ temp_file = JsonDump(devices)
    /\ devices_file.kind = "complete"
    /\ devices_file # temp_file

\* the attributes of the call merged into those of the stored record, if any
MergedByCall ==
    LET old == IF CallKeyNext \in DOMAIN devices
               THEN devices[CallKeyNext].attributes ELSE << >>
        incoming == call'.status_data.attributes
    IN  [k \in DOMAIN old \cup DOMAIN incoming |->
            IF k \in DOMAIN incoming THEN incoming[k] ELSE old[k]]

\* C14: after every step the attributes of every stored record serialize to
\* at most MAX_DEVICE_SIZE_BYTES bytes, and an update_device with attributes
\* that passes the checks of the identifier and of the ceiling is accepted
\* exactly when the merged attributes serialize to at most
\* MAX_DEVICE_SIZE_BYTES bytes.
C14_SizeInvariant ==
    [][/\ \A m \in DOMAIN devices' :
            JsonSize(devices'[m].attributes) <= MAX_DEVICE_SIZE_BYTES
       /\ (/\ UpdateCalled
           /\ call'.mac # << >>
           /\ call'.status_data.has_attributes
           /\ (CallKeyNext \in DOMAIN devices
                 \/ Cardinality(DOMAIN devices) < MAX_DEVICES)) =>
             ((ret'.v = "True")
                <=> (JsonSize(MergedByCall) <= MAX_DEVICE_SIZE_BYTES))]_vars

\* C14, witness: an update was accepted whose merged attributes serialize to
\* exactly MAX_DEVICE_SIZE_BYTES bytes.
C14_Witness ==
    /\ pc = "done" /\ call.op = "update_device" /\ ret.v = "True"
    /\ call.status_data = Status(FirmwareAttributes)
    /\ Cardinality(DOMAIN devices[CallKey].attributes) = 6
    /\ JsonSize(devices[CallKey].attributes) = MAX_DEVICE_SIZE_BYTES

\* C15: a status message that is accepted creates or updates the record
\* keyed by the uppercase form of the identifier parsed from its payload (the
\* dn of the first record that has one), and no other record, whatever the
\* device segment of its topic.
C15_UpdateUnderParsedIdentifier ==
    [][(MessageCalled /\ ret'.v = "True") =>
          LET parsed == parse_status_message(call'.payload, now)
              key == Upper(parsed.mac.text)
          IN  /\ parsed.mac.t = "str"
              /\ key \in DOMAIN devices'
              /\ devices'[key].mac = key
              /\ devices'[key].last_seen = now
              /\ \A k \in DOMAIN devices' \ {key} :
                    k \in DOMAIN devices /\ devices'[k] = devices[k]]_vars

\* the tokens of a comma-separated text in their order, for a text whose
\* tokens hold no blank and no comma and are set apart by commas and blanks
TokenList(text) ==
    LET toks == SelectSeq(text, LAMBDA x : x \notin {",", " "})
    IN  [i \in DOMAIN toks |-> << toks[i] >>]

\* C16: after every step each record whose attributes contain
\* supportAttributes has as capabilities the tokens of that value, split at
\* the commas, trimmed, in their order; and an accepted update_device whose
\* incoming attributes carry no supportAttributes leaves the capabilities of
\* the record as they were (empty for a new record).
C16_CapabilityDerivation ==
    [][/\ \A m \in DOMAIN devices' :
            SUPPORT \in DOMAIN devices'[m].attributes =>
               devices'[m].capabilities
                  = TokenList(devices'[m].attributes[SUPPORT].text)
       /\ (/\ UpdateCalled /\ ret'.v = "True"
           /\ SUPPORT \notin DOMAIN call'.status_data.attributes) =>
             devices'[CallKeyNext].capabilities
                = IF CallKeyNext \in DOMAIN devices
                  THEN devices[CallKeyNext].capabilities ELSE << >>]_vars

\* C16, witness: an update without supportAttributes was accepted for a
\* record whose supportAttributes " brightness, switch ,color" had given the
\* capabilities brightness, switch, color.
C16_Witness ==
    /\ pc = "done" /\ call.op = "update_device" /\ ret.v = "True"
    /\ call.status_data = Status(FirmwareAttributes)
    /\ SUPPORT \in DOMAIN devices[CallKey].attributes
    /\ devices[CallKey].attributes[SUPPORT] = SpacedAttributes[SUPPORT]
    /\ devices[CallKey].capabilities
         = << << "brightness" >>, << "switch" >>, << "color" >> >>

\* the key under which the call that begins in this step stores its record
StoredKeyNext ==
    IF call'.op = "update_device" THEN Upper(call'.mac)
    ELSE Upper(Split(call'.topic, "/")[2])

\* C17: in every step a record that stays in the store keeps its first_seen
\* and its last_seen does not decrease, a record that enters the store has
\* first_seen at the time of the step, every record has first_seen <=
\* last_seen, and an accepted update (a call of update_device or a message)
\* leaves last_seen of its record at the time of the update.
C17_Timestamps ==
    [][/\ \A m \in DOMAIN devices' :
            /\ devices'[m].first_seen <= devices'[m].last_seen
            /\ m \in DOMAIN devices =>
                  /\ devices'[m].first_seen = devices[m].first_seen
                  /\ devices'[m].last_seen >= devices[m].last_seen
            /\ m \notin DOMAIN devices => devices'[m].first_seen = now
       /\ ((UpdateCalled \/ MessageCalled) /\ ret'.v = "True") =>
             /\ StoredKeyNext \in DOMAIN devices'
             /\ devices'[StoredKeyNext].last_seen = now]_vars

\* C17, witness: a record created at time 0 was updated a day later by an
\* accepted message: first_seen is 0 and last_seen is the time of the update.
C17_Witness ==
    /\ pc = "done" /\ call.op = "process_mqtt_message" /\ ret.v = "True"
    /\ now = DAY_MS
    /\ M1 \in DOMAIN devices
    /\ call.topic = Topic(M1, "status")
    /\ devices[M1].first_seen = 0
    /\ devices[M1].last_seen = DAY_MS

\* C18: a sweep with max_age_days removes exactly the records whose last_seen
\* is less than the current time minus max_age_days * 86400 seconds, both in
\* milliseconds, leaves every other record as it was and returns the number
\* of records removed.
C18_SweepPostcondition ==
    [][(pc = "idle" /\ call'.op = "cleanup_old_devices") =>
          LET cutoff == now - call'.max_age_days * 86400 * 1000
          IN  /\ DOMAIN devices'
                   = {m \in DOMAIN devices : devices[m].last_seen >= cutoff}
              /\ \A m \in DOMAIN devices' : devices'[m] = devices[m]
              /\ ret'.v = "count"
              /\ ret'.n = Cardinality(DOMAIN devices \ DOMAIN devices')]_vars

\* C18, witness: a sweep removed one record and kept the other.
C18_Witness ==
    /\ pc = "done" /\ call.op = "cleanup_old_devices"
    /\ ret.v = "count" /\ ret.n = 1
    /\ Cardinality(DOMAIN devices) = 1
    /\ devices_file = JsonDump(devices)

\* the mapping a file decodes to: that of a complete snapshot, else none
Decoded(file) == IF file.kind = "complete" THEN file.data ELSE << >>

\* C19: after every completed operation the canonical file decodes to the
\* in-memory mapping (it is absent or unreadable only for the empty mapping
\* of a store that never saved); the process stopping at any point leaves the
\* canonical file as it is; and a start loads the mapping of the canonical
\* file if it is a complete snapshot, the empty mapping if it is absent or
\* unreadable, and ends ready for calls.
C19_RestartRecovery ==
    [][/\ pc \in {"idle", "done"} => devices = Decoded(devices_file)
       /\ (pc # "crashed" /\ pc' = "crashed") => devices_file' = devices_file
       /\ (pc = "crashed" /\ pc' # "crashed") =>
             /\ pc' = "idle"
             /\ devices' = Decoded(devices_file)]_vars

\* C19, witness: a store restarted after updates of two identifiers and a
\* sweep holds again the one record that was left, from the canonical file.
C19_Witness ==
    /\ pc = "idle"
    /\ now = DAY_MS
    /\ DOMAIN devices = {M1}
    /\ devices[M1].last_seen = DAY_MS
    /\ Cardinality(DOMAIN devices[M1].attributes) = 6
    /\ devices_file = JsonDump(devices)
    /\ temp_file = Partial

\* the spellings of one identifier that the calls use
CaseVariants == {M1, M1lower}

\* C20: every key of the store is the uppercase form of an identifier and the
\* mac field of its record; the spellings of one identifier never make two
\* records, and get_device returns the same record for each of them; an
\* accepted update_device under either spelling puts no key but the uppercase
\* one in the store, and get_device then returns that record for each
\* spelling.
C20_IdentifierCanonicalization ==
    [][/\ \A k \in DOMAIN devices' :
            /\ k = Upper(k)
            /\ devices'[k].mac = k
       /\ M1lower \notin DOMAIN devices'
       /\ \A x \in CaseVariants :
            get_device(devices', x) = get_device(devices', M1)
       /\ (UpdateCalled /\ ret'.v = "True" /\ call'.mac \in CaseVariants) =>
             /\ M1 \in DOMAIN devices'
             /\ DOMAIN devices' \ DOMAIN devices \subseteq {M1}
             /\ \A x \in CaseVariants :
                  get_device(devices', x) = devices'[M1]]_vars

\* C20, witness: a record created under the uppercase spelling was updated a
\* day later under the lowercase one; it is still the only record and
\* get_device finds it under both spellings.
C20_Witness ==
    /\ pc = "done" /\ call.op = "update_device" /\ ret.v = "True"
    /\ call.mac = M1lower
    /\ now = DAY_MS
    /\ DOMAIN devices = {M1}
    /\ devices[M1].first_seen = 0
    /\ devices[M1].last_seen = DAY_MS
    /\ K("firmware") \in DOMAIN devices[M1].attributes
    /\ Cardinality(DOMAIN devices[M1].attributes) = 6
    /\ get_device(devices, M1lower) = devices[M1]
    /\ get_device(devices, M1) = devices[M1]

\* C21: for a message whose payload decodes to a non-empty sequence, the
\* parsed attribute mapping has exactly one entry for each type among the
\* records with a non-empty type and a present value, and the value of the
\* entry is the text of the value of the last such record of that type.
C21_ParserAttributeMapping ==
    [][(MessageCalled /\ call'.payload.kind = "list"
                      /\ call'.payload.items # << >>) =>
         LET items == call'.payload.items
             Contributing ==
                 {i \in DOMAIN items :
                     /\ items[i].isDict
                     /\ Truthy(Get(items[i], "type"))
                     /\ Get(items[i], "value") # JNull}
             Types == {Get(items[i], "type") : i \in Contributing}
             Last(k) ==
                 CHOOSE i \in Contributing :
                     /\ Get(items[i], "type") = k
                     /\ \A j \in Contributing :
                          Get(items[j], "type") = k => j <= i
             Stringified(v) == IF v.t = "str" THEN v ELSE JStr(v.text)
             parsed == parse_status_message(call'.payload, now)
         IN  /\ parsed.ok
             /\ DOMAIN parsed.attributes = Types
             /\ \A k \in Types :
                  parsed.attributes[k] =
                      Stringified(Get(items[Last(k)], "value"))]_vars

C23_MalformedNeverStopsIngestion ==
    [][MessageCalled =>
         LET topic_parts == Split(call'.topic, "/")
             items == call'.payload.items
             WellFormed ==
                 /\ Len(topic_parts) = 3
                 /\ topic_parts[1] = << "wifielement" >>
                 /\ topic_parts[3] = << "status" >>
                 /\ call'.payload.kind = "list"
                 /\ \A i \in DOMAIN items :
                      /\ items[i].isDict
                      /\ Get(items[i], "type").t = "str"
                      /\ StrLen(Get(items[i], "type").text) > 0
                      /\ Get(items[i], "value").t = "str"
                 /\ Cardinality({Get(items[i], "type") : i \in DOMAIN items})
                      >= COMPREHENSIVE_THRESHOLD
             sent == [i \in DOMAIN items |-> Get(items[i], "type")]
         IN  /\ ret'.v \in {"True", "False"}
             /\ WellFormed =>
                   /\ ret'.v = "True"
                   /\ StoredKeyNext \in DOMAIN devices'
                   /\ devices'[StoredKeyNext].last_seen = now
                   /\ \A i \in DOMAIN items :
                        sent[i] \in DOMAIN devices'[StoredKeyNext].attributes]_vars

\* C24: on an empty store the five-record status message of
\* B0:CE:18:C3:3A:A2 is accepted and leaves exactly one record, keyed
\* B0:CE:18:C3:3A:A2, with the five attributes of the message and the
\* capabilities brightness, switch, colorTemperature; and when the call has
\* saved, the snapshot file holds exactly that record.
C24_EndToEnd ==
    [][LET ThisMessage ==
               /\ call'.op = "process_mqtt_message"
               /\ call'.topic = << "wifielement", "/", "B0:CE:18:C3:3A:A2",
                                   "/", "status" >>
               /\ call'.payload = FullPayload
           OneRecord(devs) ==
               /\ DOMAIN devs = {M1}
               /\ devs[M1].mac = M1
               /\ DOMAIN devs[M1].attributes =
                     {K("brightness"), K("switch"), K("colorTemperature"),
                      SUPPORT, K("online")}
               /\ devs[M1].attributes[K("brightness")].text = << "25" >>
               /\ devs[M1].attributes[K("switch")].text = << "1" >>
               /\ devs[M1].attributes[K("colorTemperature")].text = << "200" >>
               /\ devs[M1].attributes[SUPPORT].text =
                     << "brightness", ",", "switch", ",", "colorTemperature" >>
               /\ devs[M1].attributes[K("online")].text = << "1" >>
               /\ devs[M1].capabilities =
                     << << "brightness" >>, << "switch" >>,
                        << "colorTemperature" >> >>
       IN  /\ (pc = "idle" /\ devices = << >> /\ ThisMessage) =>
                 /\ ret'.v = "True"
                 /\ OneRecord(devices')
                 /\ pc' = "save_open"
           /\ (pc = "save_replace" /\ pc' = "done" /\ ThisMessage
                 /\ devices_file.kind = "absent") =>
                 /\ OneRecord(devices')
                 /\ devices_file'.kind = "complete"
                 /\ OneRecord(devices_file'.data)
                 /\ devices_file' = JsonDump(devices')]_vars

\* C24, witness: the message was accepted by the empty store and saved: one
\* record in memory and in the snapshot file, written for the first time.
C24_Witness ==
    /\ pc = "done" /\ call.op = "process_mqtt_message" /\ ret.v = "True"
    /\ call.topic = Topic(M1, "status")
    /\ call.payload = FullPayload
    /\ DOMAIN devices = {M1}
    /\ devices[M1].attributes = FullAttributes
    /\ devices[M1].first_seen = devices[M1].last_seen
    /\ Len(devices[M1].capabilities) = 3
    /\ devices_file = JsonDump(devices)
    /\ temp_file = Absent

\* C25: get_storage_stats reports as total_devices the number of records of
\* the in-memory mapping and as last_updated the greatest last_seen of its
\* records, 0 for the empty mapping; it changes nothing.
C25_Stats ==
    [][(pc = "idle" /\ call'.op = "get_storage_stats") =>
         LET stats == ret'.n
         IN  /\ stats.total_devices = Cardinality(DOMAIN devices)
             /\ DOMAIN devices = {} => stats.last_updated = 0
             /\ DOMAIN devices # {} =>
                   /\ \E m \in DOMAIN devices :
                        devices[m].last_seen = stats.last_updated
                   /\ \A m \in DOMAIN devices :
                        devices[m].last_seen <= stats.last_updated
             /\ devices' = devices
             /\ devices_file' = devices_file]_vars

\* C25, witness: the statistics of a store with two records, one seen a day
\* after the other: two devices, last updated at the later time.
C25_Witness ==
    /\ pc = "done" /\ call.op = "get_storage_stats"
    /\ DOMAIN devices = {M1, M2}
    /\ devices[M1].last_seen = 0
    /\ devices[M2].last_seen = DAY_MS
    /\ ret.n.total_devices = 2
    /\ ret.n.last_updated = DAY_MS

\* C26: a sweep that removes nothing returns 0, leaves the in-memory mapping
\* as it was and starts no snapshot write; a sweep that removes a record
\* starts one write; and while a sweep is in progress the snapshot file
\* changes in one step only, the rename that ends the one write, to the
\* snapshot of the mapping after the removal, after which the call returns.
C26_SweepPersistence ==
    [][/\ (pc = "idle" /\ call'.op = "cleanup_old_devices") =>
             /\ devices_file' = devices_file /\ temp_file' = temp_file
             /\ (DOMAIN devices' = DOMAIN devices) =>
                   /\ ret'.n = 0
                   /\ devices' = devices
                   /\ pc' = "done"
             /\ (DOMAIN devices' # DOMAIN devices) =>
                   /\ ret'.n > 0
                   /\ pc' = "save_open"
       /\ (pc # "idle" /\ call.op = "cleanup_old_devices") =>
             /\ devices' = devices
             /\ pc = "save_open" => (pc' = "save_dump" /\ devices_file' = devices_file)
             /\ pc = "save_dump" => (pc' = "save_replace" /\ devices_file' = devices_file)
             /\ pc = "save_replace" =>
                   (pc' = "done" /\ devices_file' = JsonDump(devices))
             /\ pc = "done" =>
                   (pc' = "idle" /\ devices_file' = devices_file
                                 /\ temp_file' = temp_file)]_vars

\* C26, witness: a sweep removed both records of the store and saved once:
\* the mapping is empty and the snapshot file is the snapshot of the empty
\* mapping.
C26_Witness ==
    /\ pc = "done" /\ call.op = "cleanup_old_devices"
    /\ ret.n = 2
    /\ devices = << >>
    /\ devices_file.kind = "complete"
    /\ devices_file = JsonDump(devices)
    /\ temp_file = Absent

\* C27: a message for which process_mqtt_message returns False leaves the
\* in-memory mapping, every field of every record, and the snapshot file as
\* they were before the message.
C27_RejectedMessageLeavesStore ==
    [][(MessageCalled /\ ret'.v = "False") =>
          /\ devices' = devices
          /\ devices_file' = devices_file]_vars

\* C28: a sweep that runs while the listener thread updates the store
\* removes no record whose last_seen is at or after the cutoff when it is
\* removed; and once the sweep and the update have both finished, every
\* device that an accepted update refreshed during the sweep is in the store
\* and in the snapshot file.
C28_SweepInterleaved ==
    [][/\ sweep.pc = "delete" =>
             \A m \in DOMAIN devices \ DOMAIN devices' :
                 devices[m].last_seen < sweep.cutoff_time
       /\ (sweep'.pc = "done" /\ pc' \in {"idle", "done"}) =>
             \A m \in sweep'.refreshed :
                 /\ m \in DOMAIN devices'
                 /\ devices_file'.kind = "complete"
                 /\ m \in DOMAIN devices_file'.data]_vars

\* C29: once the store has started over a snapshot file that decodes as
\* JSON, every key of the in-memory mapping is an uppercase identifier and
\* the mac of its record, and the mapping has at most MAX_DEVICES entries.
C29_InvariantsFromStartup ==
    pc # "crashed" =>
        /\ \A k \in DOMAIN devices :
             /\ k = Upper(k)
             /\ devices[k].mac = k
        /\ Cardinality(DOMAIN devices) <= MAX_DEVICES

\* C30: after stop() is called on a running listener, running is false and
\* the listener thread eventually terminates.
C30_ListenerShutdown ==
    /\ [](listener.stop # "none" => ~listener.running)
    /\ (listener.stop # "none") ~> (listener.thread = "terminated")

====
